---- MODULE Spec2Model ----
(***************************************************************************)
(* Model of the JSP formatter (src/src/formatter.ts) and of its caller,    *)
(* the formatting provider of the extension (src/unnamed/part_000).        *)
(*                                                                         *)
(* Text is a sequence of characters, each character a one-character        *)
(* string.  The placeholder element <jspfmt data-i="N"></jspfmt> is kept   *)
(* as one symbol "M<N>" of the text: it has no line break or blank in it,  *)
(* it does not end in "%>", and String.indexOf finds it as a whole.        *)
(***************************************************************************)
EXTENDS Integers, Sequences, FiniteSets, TLC

(***************************************************************************)
(* JavaScript string primitives.  Indices are 0-based as in the source.    *)
(***************************************************************************)
NL == "\n"

\* \s of a JavaScript regular expression, restricted to the characters used
IsWs(c) == c \in {" ", "\t", "\n"}

\* [\t ] of the source's regular expressions
IsBlank(c) == c \in {" ", "\t"}

Min2(a, b) == IF a < b THEN a ELSE b

Max2(a, b) == IF a > b THEN a ELSE b

\* a `const` of the source: F applied to the value of x, computed once
Bind(F(_), x) == CHOOSE y \in {F(v) : v \in {x}} : TRUE

\* String.prototype.slice(a, b) with non-negative arguments
Slice(s, a, b) == SubSeq(s, Min2(a, Len(s)) + 1, Min2(b, Len(s)))

\* String.prototype.slice(a)
SliceFrom(s, a) == Slice(s, a, Len(s))

RECURSIVE DropLeading(_, _)
\* replace(/^[C]+/, "") for a character class C
DropLeading(s, C) ==
  IF s # <<>> /\ Head(s) \in C THEN DropLeading(Tail(s), C) ELSE s

RECURSIVE DropTrailing(_, _)
\* replace(/[C]+$/, "") for a character class C
DropTrailing(s, C) ==
  IF s # <<>> /\ s[Len(s)] \in C
  THEN Bind(LAMBDA t : DropTrailing(t, C), SubSeq(s, 1, Len(s) - 1))
  ELSE s

WsChars == {" ", "\t", "\n"}

BlankChars == {" ", "\t"}

TrimStart(s) == DropLeading(s, WsChars)

TrimEnd(s) == DropTrailing(s, WsChars)

Trim(s) == TrimEnd(TrimStart(s))

StartsWith(s, pre) == Len(s) >= Len(pre) /\ SubSeq(s, 1, Len(pre)) = pre

EndsWith(s, suf) ==
  Len(s) >= Len(suf) /\ SubSeq(s, Len(s) - Len(suf) + 1, Len(s)) = suf

\* s has sub at 0-based position i
HasAt(s, sub, i) ==
  i >= 0 /\ i + Len(sub) <= Len(s) /\ SubSeq(s, i + 1, i + Len(sub)) = sub

\* String.prototype.indexOf(sub, from)
IndexOf(s, sub, from) ==
  LET hits == {i \in Max2(from, 0)..(Len(s) - Len(sub)) : HasAt(s, sub, i)}
  IN IF hits = {} THEN -1
     ELSE CHOOSE i \in hits : \A j \in hits : i <= j

\* String.prototype.lastIndexOf(sub, from)
LastIndexOf(s, sub, from) ==
  LET hits == {i \in 0..Min2(Max2(from, 0), Len(s) - Len(sub)) :
                 HasAt(s, sub, i)}
  IN IF hits = {} THEN -1
     ELSE CHOOSE i \in hits : \A j \in hits : i >= j

RECURSIVE SplitLinesFrom(_, _)
\* the lines of s from the 0-based position `from` on
SplitLinesFrom(s, from) ==
  Bind(LAMBDA i : IF i = -1 THEN <<SliceFrom(s, from)>>
                  ELSE <<Slice(s, from, i)>> \o SplitLinesFrom(s, i + 1),
       IndexOf(s, <<NL>>, from))

\* String.prototype.split("\n")
SplitLines(s) == Bind(LAMBDA t : SplitLinesFrom(t, 0), s)

RECURSIVE JoinLinesFrom(_, _)
\* the lines ls[k], ls[k + 1], ... with a line break between two of them
JoinLinesFrom(ls, k) ==
  IF k > Len(ls) THEN <<>>
  ELSE IF k = Len(ls) THEN ls[k]
  ELSE ls[k] \o <<NL>> \o JoinLinesFrom(ls, k + 1)

\* Array.prototype.join("\n")
JoinLines(ls) == Bind(LAMBDA l : JoinLinesFrom(l, 1), ls)

\* " ".repeat(n)
Spaces(n) == [i \in 1..n |-> " "]

\* length of the match of /^[ \t]*/
RECURSIVE LeadingBlankLen(_)
LeadingBlankLen(s) ==
  IF s # <<>> /\ IsBlank(Head(s)) THEN 1 + LeadingBlankLen(Tail(s)) ELSE 0

\* \w of a regular expression, restricted to the characters used
WordChars ==
  {"a", "b", "c", "d", "e", "f", "g", "h", "i", "j", "k", "l", "m", "n", "o",
   "p", "q", "r", "s", "t", "u", "v", "w", "x", "y", "z",
   "0", "1", "2", "3", "4", "5", "6", "7", "8", "9", "_"}

IsWord(c) == c \in WordChars

\* length of the longest prefix of s made of characters of C
RECURSIVE RunLen(_, _)
RunLen(s, C) ==
  IF s # <<>> /\ Head(s) \in C THEN 1 + RunLen(Tail(s), C) ELSE 0

\* length of the longest prefix of s made of characters outside C
RECURSIVE RunLenNotIn(_, _)
RunLenNotIn(s, C) ==
  IF s # <<>> /\ Head(s) \notin C THEN 1 + RunLenNotIn(Tail(s), C) ELSE 0

(***************************************************************************)
(* stripCommonIndent                                                       *)
(***************************************************************************)
\* the least indentation of the lines of lines.slice(first, last + 1) that
\* are not blank: `min`, with 0 for Infinity
MinIndent(lines, first, last) ==
  LET used == {i \in first..last : Trim(lines[i + 1]) # <<>>}
  IN IF used = {} THEN 0
     ELSE LeadingBlankLen(
            lines[(CHOOSE i \in used :
                     \A j \in used : LeadingBlankLen(lines[i + 1])
                                        <= LeadingBlankLen(lines[j + 1])) + 1])

\* lines.map((l, i) => ...)
Dedented(lines, first, last, min) ==
  [k \in 1..Len(lines) |->
     IF k - 1 < first \/ k - 1 > last THEN lines[k]
     ELSE IF Trim(lines[k]) = <<>> THEN <<>>
     ELSE SliceFrom(lines[k], min)]

\* stripCommonIndent once text.split("\n") is known
StripIndentOfLines(text, lines) ==
  LET first == IF Len(Trim(lines[1])) = 0 THEN 1 ELSE 0
      last  == Len(lines) - 1
                 - (IF Len(Trim(lines[Len(lines)])) = 0 THEN 1 ELSE 0)
  IN Bind(LAMBDA min : IF min = 0 THEN text
                       ELSE JoinLines(Dedented(lines, first, last, min)),
          MinIndent(lines, first, last))

stripCommonIndent(text) ==
  Bind(LAMBDA lines : StripIndentOfLines(text, lines), SplitLines(text))

(***************************************************************************)
(* splitStatementsRespectingQuotes                                         *)
(***************************************************************************)
\* a loop over the characters that cuts at every semicolon
SplitStepEverySemicolon(st, ch) ==
  IF ch = ";"
  THEN [st EXCEPT !.out = Append(@, Trim(Append(st.buf, ch))), !.buf = <<>>]
  ELSE [st EXCEPT !.buf = Append(@, ch)]

\* one turn of the loop over the characters: the scanner state after ch
SplitStep(st, ch) ==
  IF st.escaping
  THEN [st EXCEPT !.buf = Append(@, ch), !.escaping = FALSE]
  ELSE IF ch = "\\"
  THEN [st EXCEPT !.buf = Append(@, ch), !.escaping = TRUE]
  ELSE
    LET inDouble == IF ~st.inSingle /\ ch = "\"" THEN ~st.inDouble
                    ELSE st.inDouble
        inSingle == IF ~(~st.inSingle /\ ch = "\"")
                         /\ ~st.inDouble /\ ch = "'"
                    THEN ~st.inSingle
                    ELSE st.inSingle
        parenDepth ==
          IF ~inSingle /\ ~inDouble
          THEN IF ch = "(" THEN st.parenDepth + 1
               ELSE IF ch = ")" THEN Max2(0, st.parenDepth - 1)
               ELSE st.parenDepth
          ELSE st.parenDepth
        cut == ~inSingle /\ ~inDouble /\ parenDepth = 0 /\ ch = ";"
    IN [out |-> IF cut THEN Append(st.out, Trim(Append(st.buf, ch)))
                ELSE st.out,
        buf |-> IF cut THEN <<>> ELSE Append(st.buf, ch),
        inSingle |-> inSingle, inDouble |-> inDouble,
        escaping |-> FALSE, parenDepth |-> parenDepth]

RECURSIVE SplitScan(_, _, _)
\* the loop over line[i], i 1-based here, on the scanner state st
SplitScan(line, i, st) ==
  IF i > Len(line)
  THEN IF Len(Trim(st.buf)) > 0 THEN Append(st.out, Trim(st.buf)) ELSE st.out
  ELSE Bind(LAMBDA next : SplitScan(line, i + 1, next), SplitStep(st, line[i]))

splitStatementsRespectingQuotes(line) ==
  Bind(LAMBDA l : SplitScan(l, 1,
                            [out |-> <<>>, buf |-> <<>>, inSingle |-> FALSE,
                             inDouble |-> FALSE, escaping |-> FALSE,
                             parenDepth |-> 0]),
       line)

(***************************************************************************)
(* looksLikeCaseLabel, startsWithAny and the other patterns of the         *)
(* fallback Java formatter                                                 *)
(***************************************************************************)
\* new RegExp("^" + k + "\\b").test(s), k ending in a word character
StartsWithWord(s, k) ==
  StartsWith(s, k) /\ (Len(s) = Len(k) \/ ~IsWord(s[Len(k) + 1]))

KwCase == <<"c", "a", "s", "e">>

KwDefaultColon == <<"d", "e", "f", "a", "u", "l", "t", ":">>

KwSwitch == <<"s", "w", "i", "t", "c", "h">>

KwElse == <<"e", "l", "s", "e">>

KwElseIf == <<"e", "l", "s", "e", " ", "i", "f">>

KwCatch == <<"c", "a", "t", "c", "h">>

KwFinally == <<"f", "i", "n", "a", "l", "l", "y">>

controlStarters ==
  <<<<"i", "f">>, KwElseIf, KwElse, <<"f", "o", "r">>,
    <<"w", "h", "i", "l", "e">>, <<"d", "o">>, <<"t", "r", "y">>,
    KwCatch, KwFinally>>

startsWithAny(s, kws) == \E i \in 1..Len(kws) : StartsWithWord(s, kws[i])

looksLikeCaseLabel(s) ==
  \/ /\ StartsWithWord(s, KwCase)
     /\ \E i \in 5..Len(s) : s[i] = ":" /\ TrimStart(SliceFrom(s, i)) = <<>>
  \/ /\ StartsWith(s, KwDefaultColon)
     /\ TrimStart(SliceFrom(s, Len(KwDefaultColon))) = <<>>

\* /\bswitch\s*\(/.test(line)
HasSwitchParen(line) ==
  \E i \in 0..(Len(line) - Len(KwSwitch)) :
    /\ HasAt(line, KwSwitch, i)
    /\ (i = 0 \/ ~IsWord(line[i]))
    /\ LET r == TrimStart(SliceFrom(line, i + Len(KwSwitch)))
       IN r # <<>> /\ Head(r) = "("

\* line.match(/^(case\b[\s\S]*?:|default:)\s*([\s\S]*)$/): the trimmed
\* label and tail, or ok = FALSE
CaseMatch(line) ==
  LET c == IF StartsWithWord(line, KwCase) THEN IndexOf(line, <<":">>, 4)
           ELSE -1
  IN IF c # -1
     THEN [ok |-> TRUE, label |-> Trim(Slice(line, 0, c + 1)),
           tail |-> Trim(SliceFrom(line, c + 1))]
     ELSE IF StartsWith(line, KwDefaultColon)
     THEN [ok |-> TRUE, label |-> KwDefaultColon,
           tail |-> Trim(SliceFrom(line, Len(KwDefaultColon)))]
     ELSE [ok |-> FALSE, label |-> <<>>, tail |-> <<>>]

RECURSIVE LiteralEnd(_, _, _)
\* 0-based position of the quote Q that closes ([^Q\\]|\\.)* read from the
\* 0-based position i, or -1
LiteralEnd(s, i, Q) ==
  IF i >= Len(s) THEN -1
  ELSE IF s[i + 1] = Q THEN i
  ELSE IF s[i + 1] = "\\"
  THEN IF i + 1 < Len(s) /\ s[i + 2] # NL THEN LiteralEnd(s, i + 2, Q)
       ELSE -1
  ELSE LiteralEnd(s, i + 1, Q)

RECURSIVE HideLiteralsFrom(_, _, _)
\* the replacement of the literals of s from the 0-based position i on
HideLiteralsFrom(s, i, Q) ==
  IF i >= Len(s) THEN <<>>
  ELSE IF s[i + 1] # Q THEN <<s[i + 1]>> \o HideLiteralsFrom(s, i + 1, Q)
  ELSE Bind(LAMBDA end :
              IF end # -1
              THEN <<Q, "s", Q>> \o HideLiteralsFrom(s, end + 1, Q)
              ELSE <<Q>> \o HideLiteralsFrom(s, i + 1, Q),
            LiteralEnd(s, i + 1, Q))

\* s.replace(/Q([^Q\\]|\\.)*Q/g, 'QsQ') for the quote character Q
HideLiterals(s, Q) == Bind(LAMBDA t : HideLiteralsFrom(t, 0, Q), s)

\* noStr: double-quoted literals replaced first, then single-quoted ones
NoStrings(s) == HideLiterals(HideLiterals(s, "\""), "'")

CountChar(s, c) == Cardinality({i \in 1..Len(s) : s[i] = c})

\* opens - closes of the text noStr
OpensMinusCloses(noStr) == CountChar(noStr, "{") - CountChar(noStr, "}")

\* opens - closes of a line
BraceDelta(s) == Bind(OpensMinusCloses, NoStrings(s))

\* the alternative of (else if|else|catch|finally)\b that matches at the
\* start of t, <<>> when none does
JoinKeywordAt(t) ==
  IF StartsWithWord(t, KwElseIf) THEN KwElseIf
  ELSE IF StartsWithWord(t, KwElse) THEN KwElse
  ELSE IF StartsWithWord(t, KwCatch) THEN KwCatch
  ELSE IF StartsWithWord(t, KwFinally) THEN KwFinally
  ELSE <<>>

\* the match of /\s+(else if|else|catch|finally)\b/ at the start of `after`,
\* the text that follows a "}": its keyword and its length, 0 when none
BraceKeywordAt(after) ==
  LET ws == RunLen(after, WsChars)
      kw == JoinKeywordAt(SliceFrom(after, ws))
  IN IF ws > 0 /\ kw # <<>> THEN [kw |-> kw, len |-> ws + Len(kw)]
     ELSE [kw |-> <<>>, len |-> 0]

RECURSIVE JoinBraceKeywordFrom(_, _)
\* the replacement in code from the 0-based position i on
JoinBraceKeywordFrom(code, i) ==
  IF i >= Len(code) THEN <<>>
  ELSE IF code[i + 1] # "}"
  THEN <<code[i + 1]>> \o JoinBraceKeywordFrom(code, i + 1)
  ELSE Bind(LAMBDA m :
              IF m.len > 0
              THEN <<"}", " ">> \o m.kw
                     \o JoinBraceKeywordFrom(code, i + 1 + m.len)
              ELSE <<"}">> \o JoinBraceKeywordFrom(code, i + 1),
            Bind(BraceKeywordAt, SliceFrom(code, i + 1)))

\* code.replace(/}\s+(else if|else|catch|finally)\b/g, "} $1")
JoinBraceKeyword(code) == Bind(LAMBDA c : JoinBraceKeywordFrom(c, 0), code)

(***************************************************************************)
(* formatJavaPrettyFallback.  The state of its loop over the lines is the  *)
(* record [level, out, switchLevels].                                      *)
(***************************************************************************)
pushLine(out, lvl, text, tabWidth) ==
  Append(out, Spaces(Max2(0, lvl) * tabWidth) \o Trim(text))

\* a loop over the statements that prints the first of them only
PushFirstStmt(out, lvl, stmts, tabWidth) ==
  IF stmts = <<>> \/ Head(stmts) = <<>> THEN out
  ELSE pushLine(out, lvl, Head(stmts), tabWidth)

RECURSIVE PushStmts(_, _, _, _)
\* for (const s of stmts) { if (!s) continue; pushLine(lvl, s); }
PushStmts(out, lvl, stmts, tabWidth) ==
  IF stmts = <<>> THEN out
  ELSE PushStmts(IF Head(stmts) = <<>> THEN out
                 ELSE pushLine(out, lvl, Head(stmts), tabWidth),
                 lvl, Tail(stmts), tabWidth)

Top(stack) == stack[Len(stack)]

Pop(stack) == SubSeq(stack, 1, Len(stack) - 1)

\* a line that starts with "}" lowers the level before it is printed
CloseFirst(st, line) ==
  IF StartsWith(line, <<"}">>)
  THEN [st EXCEPT
          !.switchLevels = IF @ # <<>> /\ Top(@) = st.level - 1 THEN Pop(@)
                           ELSE @,
          !.level = Max2(st.level - 1, 0)]
  ELSE st

\* const opensSwitch = /\bswitch\s*\(/.test(line) && line.includes("{")
OpensSwitch(line) == HasSwitchParen(line) /\ CountChar(line, "{") > 0

\* the branch of a case / default line
CaseLine(st, line, cm, tabWidth) ==
  LET out1 == pushLine(st.out, st.level, cm.label, tabWidth)
      out2 == IF cm.tail # <<>>
              THEN Bind(LAMBDA stmts :
                          PushStmts(out1, st.level + 1, stmts, tabWidth),
                        splitStatementsRespectingQuotes(cm.tail))
              ELSE out1
  IN [level |-> st.level + BraceDelta(line),
      out |-> out2,
      switchLevels |-> IF OpensSwitch(line)
                       THEN Append(st.switchLevels, st.level)
                       ELSE st.switchLevels]

\* /\)\s*[^{;]/.test(line): \s* may match nothing, and then the class
\* matches any next character but "{" and ";"
ParenThenBody(line) ==
  \E i \in 1..(Len(line) - 1) : line[i] = ")" /\ line[i + 1] \notin {"{", ";"}

\* the branch of a control header followed by its statement on the line:
\* line.match(/^(.*\))\s*(.*)$/) cuts after the last ")"
HeaderTailLine(st, line, tabWidth) ==
  LET r      == LastIndexOf(line, <<")">>, Len(line))
      header == Trim(Slice(line, 0, r + 1))
      tail   == Trim(SliceFrom(line, r + 1))
      out1   == pushLine(st.out, st.level, header, tabWidth)
  IN [level |-> st.level + BraceDelta(tail),
      out |-> Bind(LAMBDA stmts :
                     PushStmts(out1, st.level + 1, stmts, tabWidth),
                   splitStatementsRespectingQuotes(tail)),
      switchLevels |-> st.switchLevels]

\* the branch of a control header printed as it is
PlainControlLine(st, line, tabWidth) ==
  LET hasOpenBrace  == EndsWith(line, <<"{">>)
      hasCloseBrace == EndsWith(line, <<"}">>)
      enters == hasOpenBrace /\ ~hasCloseBrace
      sl1  == IF enters /\ HasSwitchParen(line)
              THEN Append(st.switchLevels, st.level)
              ELSE st.switchLevels
      lvl1 == IF enters THEN st.level + 1 ELSE st.level
      count == ~hasOpenBrace \/ hasCloseBrace
  IN [level |-> IF count THEN lvl1 + BraceDelta(line) ELSE lvl1,
      out |-> pushLine(st.out, st.level, line, tabWidth),
      switchLevels |-> IF count /\ OpensSwitch(line) THEN Append(sl1, lvl1)
                       ELSE sl1]

ControlLine(st, line, tabWidth) ==
  IF ~EndsWith(line, <<"{">>) /\ ParenThenBody(line)
  THEN HeaderTailLine(st, line, tabWidth)
  ELSE PlainControlLine(st, line, tabWidth)

\* one turn of the loop over the statements of a line, for the trimmed
\* statement stmt; st.level does not change in it
GeneralStmt(st, stmt, insideSwitch, tabWidth) ==
  LET closing == StartsWith(stmt, <<"}">>)
      sl == IF closing /\ st.switchLevels # <<>>
                 /\ Top(st.switchLevels) = st.level - 1
            THEN Pop(st.switchLevels)
            ELSE st.switchLevels
      lvlA == IF closing THEN Max2(st.level - 1, 0) ELSE st.level
      useLevel == IF ~looksLikeCaseLabel(stmt) /\ insideSwitch
                  THEN lvlA + 1
                  ELSE lvlA
  IN IF stmt = <<>> THEN st
     ELSE [level |-> st.level,
           out |-> pushLine(st.out, useLevel, stmt, tabWidth),
           switchLevels |-> sl]

RECURSIVE GeneralStmts(_, _, _, _)
\* the loop over the statements of a line
GeneralStmts(st, parts, insideSwitch, tabWidth) ==
  IF parts = <<>> THEN st
  ELSE Bind(LAMBDA next :
              GeneralStmts(next, Tail(parts), insideSwitch, tabWidth),
            Bind(LAMBDA stmt : GeneralStmt(st, stmt, insideSwitch, tabWidth),
                 Trim(Head(parts))))

\* the end of the branch of any other line, st1 the state after the loop
\* over its statements
GeneralEnd(st, st1, line) ==
  LET lvl == st.level + BraceDelta(line)
  IN [level |-> lvl,
      out |-> st1.out,
      switchLevels |-> IF st1.switchLevels # <<>>
                            /\ Top(st1.switchLevels) >= lvl
                       THEN Pop(st1.switchLevels)
                       ELSE st1.switchLevels]

\* the branch of any other line
GeneralLine(st, line, tabWidth) ==
  LET insideSwitch == st.switchLevels # <<>> /\ Top(st.switchLevels) = st.level
  IN Bind(LAMBDA st1 : GeneralEnd(st, st1, line),
          Bind(LAMBDA parts : GeneralStmts(st, parts, insideSwitch, tabWidth),
               splitStatementsRespectingQuotes(line)))

\* one turn of the loop `for (let raw of lines)` for line = raw.trim(), st1
\* the state after a "}" at the start of the line has lowered the level
ProcessTrimmed(st, st1, line, tabWidth) ==
  IF line = <<>> THEN [st EXCEPT !.out = Append(@, <<>>)]
  ELSE IF CaseMatch(line).ok THEN CaseLine(st1, line, CaseMatch(line), tabWidth)
  ELSE IF startsWithAny(line, controlStarters)
  THEN ControlLine(st1, line, tabWidth)
  ELSE GeneralLine(st1, line, tabWidth)

\* one turn of the loop `for (let raw of lines)`
ProcessLine(st, raw, tabWidth) ==
  Bind(LAMBDA line :
         Bind(LAMBDA st1 : ProcessTrimmed(st, st1, line, tabWidth),
              CloseFirst(st, line)),
       Trim(raw))

RECURSIVE ProcessLines(_, _, _)
ProcessLines(st, lines, tabWidth) ==
  IF lines = <<>> THEN st
  ELSE Bind(LAMBDA next : ProcessLines(next, Tail(lines), tabWidth),
            ProcessLine(st, Head(lines), tabWidth))

formatJavaPrettyFallback(code, tabWidth) ==
  JoinLines(
    Bind(LAMBDA lines :
           ProcessLines([level |-> 0, out |-> <<>>, switchLevels |-> <<>>],
                        lines, tabWidth),
         SplitLines(JoinBraceKeyword(code))).out)

(***************************************************************************)
(* splitIntoSegments                                                       *)
(***************************************************************************)
OpenTag == <<"<", "%">>

CloseTag == <<"%", ">">>

\* first match of JSP_BLOCK_RE = /(<%[\s\S]*?%>)/g at or after `from`:
\* [start, end) 0-based, or start = -1 when there is none
JspMatch(s, from) ==
  LET i == IndexOf(s, OpenTag, from)
      j == IF i = -1 THEN -1 ELSE IndexOf(s, CloseTag, i + 2)
  IN IF i = -1 \/ j = -1 THEN [start |-> -1, end |-> -1]
     ELSE [start |-> i, end |-> j + 2]

RECURSIVE SplitDropBlocks(_, _)
\* input.split(/<%[\s\S]*?%>/g): the same split without the capture group
SplitDropBlocks(s, from) ==
  Bind(LAMBDA m : IF m.start = -1 THEN <<Slice(s, from, Len(s))>>
                  ELSE <<Slice(s, from, m.start)>>
                         \o SplitDropBlocks(s, m.end),
       JspMatch(s, from))

RECURSIVE SplitJspBlocks(_, _)
\* input.split(JSP_BLOCK_RE): texts between the matches and, because of the
\* capture group, the matches themselves, in order
SplitJspBlocks(s, from) ==
  Bind(LAMBDA m : IF m.start = -1 THEN <<Slice(s, from, Len(s))>>
                  ELSE <<Slice(s, from, m.start), Slice(s, m.start, m.end)>>
                         \o SplitJspBlocks(s, m.end),
       JspMatch(s, from))

\* /^<%\s*X/.test(part)
HasRole(part, X) ==
  StartsWith(part, OpenTag)
    /\ LET r == TrimStart(SliceFrom(part, 2)) IN r # <<>> /\ Head(r) = X

\* the segment made of one part of the split (a part of length 0 makes none)
SegmentOf(part) ==
  IF StartsWith(part, OpenTag) /\ EndsWith(part, CloseTag)
  THEN LET rawBody == Slice(part, 2, Len(part) - 2)
           trimmed == Trim(rawBody)
       IN IF HasRole(part, "@")
          THEN [kind |-> "jsp-directive", text |-> <<>>, raw |-> part,
                inner |-> Trim(DropLeading(trimmed, {"@"}))]
          ELSE IF HasRole(part, "=")
          THEN [kind |-> "jsp-expr", text |-> <<>>, raw |-> part,
                inner |-> TrimEnd(DropLeading(rawBody, WsChars \cup {"="}))]
          ELSE IF HasRole(part, "!")
          THEN [kind |-> "jsp-decl", text |-> <<>>, raw |-> part,
                inner |-> TrimEnd(stripCommonIndent(
                            DropLeading(rawBody, WsChars \cup {"!"})))]
          ELSE [kind |-> "jsp-scriptlet", text |-> <<>>, raw |-> part,
                inner |-> TrimEnd(stripCommonIndent(trimmed))]
  ELSE [kind |-> "html", text |-> part, raw |-> <<>>, inner |-> <<>>]

RECURSIVE SegmentsOfParts(_)
SegmentsOfParts(parts) ==
  IF parts = <<>> THEN <<>>
  ELSE LET part == Head(parts)
           rest == SegmentsOfParts(Tail(parts))
       IN IF StartsWith(part, OpenTag) /\ EndsWith(part, CloseTag)
          THEN <<SegmentOf(part)>> \o rest
          ELSE IF Len(part) > 0 THEN <<SegmentOf(part)>> \o rest
          ELSE rest

splitIntoSegments(input) ==
  Bind(SegmentsOfParts, Bind(LAMBDA s : SplitJspBlocks(s, 0), input))

(***************************************************************************)
(* normalizeDirective                                                      *)
(***************************************************************************)
\* the collation order of String.prototype.localeCompare on the word
\* characters of the model; any other character sorts first
Collation ==
  <<"_", "0", "1", "2", "3", "4", "5", "6", "7", "8", "9",
    "a", "b", "c", "d", "e", "f", "g", "h", "i", "j", "k", "l", "m", "n", "o",
    "p", "q", "r", "s", "t", "u", "v", "w", "x", "y", "z">>

CharRank(c) ==
  IF \E i \in 1..Len(Collation) : Collation[i] = c
  THEN CHOOSE i \in 1..Len(Collation) : Collation[i] = c
  ELSE 0

RECURSIVE LocaleLess(_, _)
\* p.localeCompare(q) < 0
LocaleLess(p, q) ==
  IF q = <<>> THEN FALSE
  ELSE IF p = <<>> THEN TRUE
  ELSE IF CharRank(Head(p)) # CharRank(Head(q))
  THEN CharRank(Head(p)) < CharRank(Head(q))
  ELSE LocaleLess(Tail(p), Tail(q))

\* one attempt of attrRe = /(\w+)\s*=\s*(?:"([^"]*)"|([^\s"'>]+))/ at the
\* 0-based position i of rest: the pair and the end of the match, or ok = FALSE
AttrAt(rest, i) ==
  LET none == [ok |-> FALSE, k |-> <<>>, v |-> <<>>, end |-> i]
      \* the value at t3, the text after the key of t0, "=" and the blanks
      Value(t0, klen, t3) ==
        LET used == Len(t0) - Len(t3)
            q    == IF t3 # <<>> /\ Head(t3) = "\""
                    THEN IndexOf(t3, <<"\"">>, 1)
                    ELSE -1
            ulen == RunLenNotIn(t3, WsChars \cup {"\"", "'", ">"})
        IN IF q # -1
           THEN [ok |-> TRUE, k |-> Slice(t0, 0, klen), v |-> Slice(t3, 1, q),
                 end |-> i + used + q + 1]
           ELSE IF ulen > 0
           THEN [ok |-> TRUE, k |-> Slice(t0, 0, klen),
                 v |-> Slice(t3, 0, ulen), end |-> i + used + ulen]
           ELSE none
      \* the "=" at t2, the text after the key of t0 and the blanks
      Equals(t0, klen, t2) ==
        IF klen = 0 \/ t2 = <<>> \/ Head(t2) # "=" THEN none
        ELSE Bind(LAMBDA t3 : Value(t0, klen, t3), TrimStart(Tail(t2)))
      \* the key at the start of t0
      Key(t0) ==
        Bind(LAMBDA klen :
               Bind(LAMBDA t2 : Equals(t0, klen, t2),
                    TrimStart(SliceFrom(t0, klen))),
             RunLen(t0, WordChars))
  IN Bind(Key, SliceFrom(rest, i))

RECURSIVE AttrPairs(_, _)
\* the loop of attrRe.exec(rest) from lastIndex = i
AttrPairs(rest, i) ==
  IF i >= Len(rest) THEN <<>>
  ELSE Bind(LAMBDA a : IF a.ok
                       THEN <<[k |-> a.k, v |-> a.v]>>
                              \o AttrPairs(rest, a.end)
                       ELSE AttrPairs(rest, i + 1),
            AttrAt(rest, i))

RECURSIVE InsertPairFirst(_, _)
\* insertion of a pair before the pairs whose key is not less: a sort that
\* is not stable
InsertPairFirst(sorted, pr) ==
  IF sorted = <<>> THEN <<pr>>
  ELSE IF ~LocaleLess(Head(sorted).k, pr.k) THEN <<pr>> \o sorted
  ELSE <<Head(sorted)>> \o InsertPairFirst(Tail(sorted), pr)

RECURSIVE InsertPair(_, _)
\* stable insertion of a pair after the pairs whose key is not greater
InsertPair(sorted, pr) ==
  IF sorted = <<>> THEN <<pr>>
  ELSE IF LocaleLess(pr.k, Head(sorted).k) THEN <<pr>> \o sorted
  ELSE <<Head(sorted)>> \o InsertPair(Tail(sorted), pr)

\* a normalizeDirective without its pairs.sort
KeepOrder(pairs) == pairs

RECURSIVE SortPairs(_)
\* pairs.sort((p, q) => p.k.localeCompare(q.k)), a stable sort
SortPairs(pairs) ==
  IF pairs = <<>> THEN <<>>
  ELSE Bind(LAMBDA sorted : InsertPair(sorted, pairs[Len(pairs)]),
            SortPairs(SubSeq(pairs, 1, Len(pairs) - 1)))

RECURSIVE RenderPairs(_)
\* pairs.map(({k, v}) => `${k}="${v}"`).join(" ")
RenderPairs(pairs) ==
  IF pairs = <<>> THEN <<>>
  ELSE LET one == Head(pairs).k \o <<"=", "\"">> \o Head(pairs).v \o <<"\"">>
       IN IF Len(pairs) = 1 THEN one
          ELSE one \o <<" ">> \o RenderPairs(Tail(pairs))

\* the end of normalizeDirective, the pairs of `rest` being known
RenderDirective(s, name, rest, pairs) ==
  IF pairs = <<>> /\ (\E i \in 1..Len(rest) : rest[i] \in {"\"", "'"}) THEN s
  ELSE Bind(LAMBDA attrs : IF attrs # <<>> THEN name \o <<" ">> \o attrs
                           ELSE name,
            Bind(RenderPairs, SortPairs(pairs)))

\* normalizeDirective for s, the inner text without "@" and trimmed
NamedDirective(s) ==
  LET nlen == RunLen(s, WordChars)
  IN IF nlen = 0 THEN s
     ELSE Bind(LAMBDA rest :
                 Bind(LAMBDA pairs :
                        RenderDirective(s, Slice(s, 0, nlen), rest, pairs),
                      AttrPairs(rest, 0)),
               TrimStart(SliceFrom(s, nlen)))

normalizeDirective(inner) ==
  Bind(NamedDirective, Trim(DropLeading(inner, {"@"})))

(***************************************************************************)
(* Reinsertion: getLineBounds, getIndentAt, applyBlockIndentPerRole,       *)
(* replaceElementTokenWithBlock                                            *)
(***************************************************************************)
getLineBounds(text, idx) ==
  LET lineStart == LastIndexOf(text, <<NL>>, idx - 1) + 1
      e         == IndexOf(text, <<NL>>, idx)
  IN [lineStart |-> lineStart, lineEnd |-> IF e = -1 THEN Len(text) ELSE e]

getIndentAt(text, pos) ==
  LET lineStart == LastIndexOf(text, <<NL>>, pos - 1) + 1
      upTo      == Slice(text, lineStart, pos)
  IN Slice(upTo, 0, LeadingBlankLen(upTo))

\* l.replace(/^[\t ]+/, "")
StripBlanks(l) == DropLeading(l, BlankChars)

\* an applyBlockIndentPerRole that gives the content the indentation of the
\* delimiters
IndentLinesFlat(lines, baseIndent, blockIndentSpaces) ==
  [i \in 1..Len(lines) |-> baseIndent \o StripBlanks(lines[i])]

\* the lines of a block with the delimiters at the base indent and the
\* content at base indent + blockIndentSpaces
IndentLinesPerRole(lines, baseIndent, blockIndentSpaces) ==
  IF Len(lines) = 1 THEN <<baseIndent \o StripBlanks(lines[1])>>
  ELSE [i \in 1..Len(lines) |->
          IF i = 1 \/ i = Len(lines) THEN baseIndent \o StripBlanks(lines[i])
          ELSE baseIndent \o Spaces(blockIndentSpaces)
                 \o StripBlanks(lines[i])]

applyBlockIndentPerRole(blockRaw, baseIndent, blockIndentSpaces) ==
  Bind(LAMBDA lines :
         JoinLines(IndentLinesPerRole(lines, baseIndent, blockIndentSpaces)),
       SplitLines(blockRaw))

\* blockRaw.split("\n").map((l) => l.replace(/^[\t ]+/, "")).join("\n")
FlattenBlock(blockRaw) ==
  Bind(LAMBDA lines :
         JoinLines([i \in 1..Len(lines) |-> StripBlanks(lines[i])]),
       SplitLines(blockRaw))

\* the text put in the place of the token's line
SplicedBlock(whole, idx, blockRaw, blockIndentSpaces) ==
  LET prevTwo == Slice(whole, Max2(0, idx - 2), idx)
      needsLeadingNewline == EndsWith(prevTwo, CloseTag)
  IN Bind(LAMBDA block : IF needsLeadingNewline /\ ~StartsWith(block, <<NL>>)
                         THEN <<NL>> \o block
                         ELSE block,
          Bind(LAMBDA baseIndent :
                 applyBlockIndentPerRole(FlattenBlock(blockRaw), baseIndent,
                                         blockIndentSpaces),
               getIndentAt(whole, idx)))

replaceElementTokenWithBlock(whole, token, blockRaw, blockIndentSpaces) ==
  Bind(LAMBDA idx :
         IF idx = -1 THEN whole
         ELSE Slice(whole, 0, getLineBounds(whole, idx).lineStart)
                \o SplicedBlock(whole, idx, blockRaw, blockIndentSpaces)
                \o SliceFrom(whole, getLineBounds(whole, idx).lineEnd),
       IndexOf(whole, token, 0))

(***************************************************************************)
(* tryFormatJavaFragment: the wrapper and the unwrapping of the fragment   *)
(***************************************************************************)
ClassOpen == <<"c", "l", "a", "s", "s", " ", "_", "_", "J", " ", "{">>

MethodSig == <<"v", "o", "i", "d", " ", "_", "_", "m", "(", ")">>

RECURSIVE BodyEnd(_, _, _)
\* the loop of extractMethodBody from the 0-based position i at brace
\* depth `depth`: the position of the brace that closes the body, or -1
BodyEnd(formatted, i, depth) ==
  IF i >= Len(formatted) THEN -1
  ELSE IF formatted[i + 1] = "{" THEN BodyEnd(formatted, i + 1, depth + 1)
  ELSE IF formatted[i + 1] = "}"
  THEN IF depth - 1 = 0 THEN i ELSE BodyEnd(formatted, i + 1, depth - 1)
  ELSE BodyEnd(formatted, i + 1, depth)

\* a text or null
Null == [null |-> TRUE, text |-> <<>>]

Text(t) == [null |-> FALSE, text |-> t]

\* the truth value of `java` in `java ? a : b`: null and "" are false
Truthy(v) == ~v.null /\ v.text # <<>>

extractMethodBody(formatted, methodSignature) ==
  LET sigIdx == IndexOf(formatted, methodSignature, 0)
      \* the text between the brace at `open` and the brace at `end`
      Body(open, end) ==
        IF end = -1 THEN Null
        ELSE Text(Trim(Slice(formatted, open + 1, end)))
      \* the loop, from the brace at `open` on
      Scan(open) ==
        IF open = -1 THEN Null
        ELSE Bind(LAMBDA end : Body(open, end),
                  BodyEnd(formatted, open + 1, 1))
  IN Bind(Scan, IF sigIdx = -1 THEN -1
                ELSE IndexOf(formatted, <<"{">>, sigIdx))

\* what tryFormatJavaFragment returns once prettier.format has resolved
UnwrapFragment(formatted, code, mode) ==
  IF mode = "decl"
  THEN LET open  == IndexOf(formatted, <<"{">>, 0)
           close == LastIndexOf(formatted, <<"}">>, Len(formatted))
       IN IF open # -1 /\ close # -1 /\ close > open
          THEN Text(Trim(Slice(formatted, open + 1, close)))
          ELSE Text(Trim(code))
  ELSE LET body == extractMethodBody(formatted, MethodSig)
       IN IF body.null THEN Text(Trim(code)) ELSE body

(***************************************************************************)
(* The collaborators.  prettier and prettier-plugin-java are not part of   *)
(* the repository: a call may fail, and a call that succeeds returns one   *)
(* of the layouts below.                                                   *)
(***************************************************************************)
MarkerSyms == <<"M0", "M1", "M2", "M3", "M4", "M5", "M6", "M7">>

IsMarker(c) == \E k \in 1..Len(MarkerSyms) : MarkerSyms[k] = c

\* const placeholderOf = (i: number) => `<jspfmt data-i="${i}"></jspfmt>`
placeholderOf(i) == <<MarkerSyms[i + 1]>>

RECURSIVE ItemsFrom(_, _)
\* the nodes of buf from the 0-based position i on
ItemsFrom(buf, i) ==
  IF i >= Len(buf) THEN <<>>
  ELSE IF IsWs(buf[i + 1]) THEN ItemsFrom(buf, i + 1)
  ELSE IF IsMarker(buf[i + 1]) THEN <<<<buf[i + 1]>>>> \o ItemsFrom(buf, i + 1)
  ELSE Bind(LAMBDA n : <<Slice(buf, i, i + n)>> \o ItemsFrom(buf, i + n),
            RunLenNotIn(SliceFrom(buf, i),
                        WsChars \cup {MarkerSyms[k] :
                                        k \in 1..Len(MarkerSyms)}))

\* the nodes of a marker buffer: every placeholder element, and every run of
\* other characters between blanks
Items(buf) == Bind(LAMBDA b : ItemsFrom(b, 0), buf)

\* what the markup formatter may put between two nodes: nothing, a blank, or
\* a line break and the indentation of a nesting depth
Separators(tabWidth, maxDepth) ==
  {<<>>, <<" ">>} \cup {<<NL>> \o Spaces(d * tabWidth) : d \in 0..maxDepth}

RECURSIVE LayoutFrom(_, _, _)
\* the nodes items[k], items[k + 1], ... with seps[j] after items[j]
LayoutFrom(items, seps, k) ==
  IF k > Len(items) THEN <<NL>>
  ELSE IF k = Len(items) THEN items[k] \o <<NL>>
  ELSE items[k] \o seps[k] \o LayoutFrom(items, seps, k + 1)

Layout(items, seps) == LayoutFrom(items, seps, 1)

\* the results of prettier.format(htmlBuffer, {parser: "html", ...}) when it
\* succeeds: the nodes in their order, laid out anew, with a final line break
HtmlOutputs(htmlBuffer, tabWidth, maxDepth) ==
  Bind(LAMBDA items :
         IF items = <<>> THEN {<<>>}
         ELSE {Layout(items, seps) :
                 seps \in [1..(Len(items) - 1) ->
                             Separators(tabWidth, maxDepth)]},
       Items(htmlBuffer))

\* the result of prettier.format(wrapped, {parser: "java", ...}) when it
\* succeeds: the wrapper and the lines of the fragment, one under the other,
\* indented by their depth in the wrapper
JavaFormatted(code, mode, tabWidth) ==
  LET depth == IF mode = "decl" THEN 1 ELSE 2
      Body(lines) == [k \in 1..Len(lines) |->
                        IF Trim(lines[k]) = <<>> THEN <<>>
                        ELSE Spaces(depth * tabWidth) \o Trim(lines[k])]
      body == JoinLines(Bind(Body, SplitLines(Trim(code))))
  IN IF mode = "decl"
     THEN ClassOpen \o <<NL>> \o body \o <<NL, "}", NL>>
     ELSE ClassOpen \o <<NL>> \o Spaces(tabWidth) \o MethodSig \o <<" ", "{">>
            \o <<NL>> \o body \o <<NL>> \o Spaces(tabWidth)
            \o <<"}", NL, "}", NL>>

(***************************************************************************)
(* formatJspDocument: the blocks                                           *)
(***************************************************************************)
RECURSIVE BuildBuffer(_, _, _)
\* segments.forEach((seg, i) => ...) from the 0-based index i on, given the
\* placeholderMap made so far: [htmlBuffer, placeholderMap]
BuildBuffer(segments, i, placeholderMap) ==
  IF i >= Len(segments)
  THEN [htmlBuffer |-> <<>>, placeholderMap |-> placeholderMap]
  ELSE LET seg == segments[i + 1]
       IN IF seg.kind = "html"
          THEN LET r == BuildBuffer(segments, i + 1, placeholderMap)
               IN [r EXCEPT !.htmlBuffer = seg.text \o @]
          ELSE LET r == BuildBuffer(segments, i + 1,
                                    Append(placeholderMap, i))
               IN [r EXCEPT !.htmlBuffer =
                              placeholderOf(Len(placeholderMap)) \o @]

IsJava(seg) == seg.kind \in {"jsp-decl", "jsp-scriptlet"}

OpenOf(seg) == IF seg.kind = "jsp-decl" THEN <<"<", "%", "!">> ELSE OpenTag

\* the block of a segment that needs no call to the Java plugin
PlainBlock(seg, opts) ==
  IF seg.kind = "jsp-directive"
  THEN <<"<", "%", "@", " ">> \o normalizeDirective(seg.inner)
         \o <<" ", "%", ">">>
  ELSE IF seg.kind = "jsp-expr"
  THEN <<"<", "%", "=", " ">> \o Trim(seg.inner) \o <<" ", "%", ">">>
  ELSE OpenOf(seg) \o <<" ">> \o seg.inner \o <<" ", "%", ">">>

\* `<%\n${formatJavaPrettyFallback(stripCommonIndent(seg.inner), ...)}\n%>`
FallbackBlock(seg, opts) ==
  OpenOf(seg) \o <<NL>>
    \o formatJavaPrettyFallback(stripCommonIndent(seg.inner), opts.tabWidth)
    \o <<NL, "%", ">">>

\* java ? `<%\n${java}\n%>` : the fallback block
JavaBlock(seg, opts, java) ==
  IF Truthy(java) THEN OpenOf(seg) \o <<NL>> \o java.text \o <<NL, "%", ">">>
  ELSE FallbackBlock(seg, opts)

(***************************************************************************)
(* Bounds of the model                                                     *)
(***************************************************************************)
\* longest text given to the segmenter alone
MaxSegLen == 6

\* number of formatting requests that may overlap
NumRequests == 2

\* number of parts of a document that is formatted
MaxParts == 2

\* number of parts of a document when requests overlap
MaxOverlapParts == 2

\* number of parts of a document whose pass is followed to its end under
\* fairness
MaxLiveParts == 1

\* deepest nesting at which the markup formatter puts a node
MaxDepth == 1

(***************************************************************************)
(* State                                                                   *)
(***************************************************************************)
VARIABLES
  arg,   \* the argument of the function applied alone
  res,   \* its result
  fn,    \* the function that has been applied, "none" before
  pass,  \* for every request, the locals of its call of formatJspDocument
  disableJavaPluginForThisRun   \* the module-level flag

vars == <<arg, res, fn, pass, disableJavaPluginForThisRun>>

Requests == 1..NumRequests

\* jspFormatter.tabWidth as the provider reads it
DefaultTabWidth == 2

\* Options.  The provider passes no blockIndent, and " ".repeat(undefined)
\* is "": that is blockIndent 0; other callers of the exported function
\* pass a number.
OptionSets ==
  [tabWidth : {DefaultTabWidth}, useTabs : {FALSE},
   javaFormat : {"auto", "indent-only", "off"}, blockIndent : {0, 2}]

\* the locals of a request that has not been made
NoRequest ==
  [pc |-> "none", input |-> <<>>,
   opts |-> [tabWidth |-> DefaultTabWidth, useTabs |-> FALSE,
             javaFormat |-> "auto", blockIndent |-> 0],
   segments |-> <<>>, placeholderMap |-> <<>>, htmlBuffer |-> <<>>,
   html |-> "none", formattedHtml |-> <<>>, out |-> <<>>, p |-> 0,
   java |-> Null, trace |-> <<>>, splices |-> <<>>, edits |-> <<>>]

\* a request for the document `input` under the settings `opts`
NewRequest(input, opts) ==
  [NoRequest EXCEPT !.pc = "idle", !.input = input, !.opts = opts]

(***************************************************************************)
(* formatJspDocument between two awaits                                    *)
(***************************************************************************)
Logged(L, ev) == [L EXCEPT !.trace = Append(@, [ev |-> ev, p |-> L.p])]

\* out = replaceElementTokenWithBlock(out, placeholderOf(p), block, ...)
\* and the p++ of the loop
Reinsert(L, block) ==
  Bind(LAMBDA result :
         [L EXCEPT !.out = result,
                   !.splices = Append(@, [whole |-> L.out,
                                          token |-> placeholderOf(L.p),
                                          block |-> block,
                                          result |-> result]),
                   !.p = @ + 1],
       replaceElementTokenWithBlock(L.out, placeholderOf(L.p), block,
                                    L.opts.blockIndent))

\* the segment of the placeholder p
SegAt(L) == L.segments[L.placeholderMap[L.p + 1] + 1]

\* the branch of the loop that calls tryFormatJavaFragment: the else of
\* `javaFormat === "off"` and of `javaFormat === "indent-only"`
CallsPluginInEveryMode(seg, opts) == IsJava(seg) /\ opts.javaFormat # "off"

CallsPlugin(seg, opts) ==
  IsJava(seg) /\ opts.javaFormat \notin {"off", "indent-only"}

\* a tryFormatJavaFragment without its first line
NeverSkipsPlugin(disabled) == FALSE

\* if (disableJavaPluginForThisRun) return null;
SkipsPlugin(disabled) == disabled

RECURSIVE RunLoop(_, _)
\* the loop `for (let p = 0; ...)` from L.p up to its next await, which is
\* the call of tryFormatJavaFragment, or up to the return
RunLoop(L, disabled) ==
  IF L.p >= Len(L.placeholderMap) THEN [L EXCEPT !.pc = "resolved"]
  ELSE IF CallsPlugin(SegAt(L), L.opts)
  THEN IF SkipsPlugin(disabled)
       THEN [Logged(L, "skip") EXCEPT !.pc = "awaitFragment", !.java = Null]
       ELSE [Logged(L, "try") EXCEPT !.pc = "awaitImport"]
  ELSE IF IsJava(SegAt(L)) /\ L.opts.javaFormat = "indent-only"
  THEN Bind(LAMBDA next : RunLoop(next, disabled),
            Bind(LAMBDA block : Reinsert(Logged(L, "fallback"), block),
                 FallbackBlock(SegAt(L), L.opts)))
  ELSE Bind(LAMBDA next : RunLoop(next, disabled),
            Bind(LAMBDA block : Reinsert(L, block),
                 PlainBlock(SegAt(L), L.opts)))

\* the start of formatJspDocument up to the call of prettier.format
StartPass(L) ==
  Bind(LAMBDA segments :
         Bind(LAMBDA b : [L EXCEPT !.pc = "awaitHtml", !.segments = segments,
                                   !.placeholderMap = b.placeholderMap,
                                   !.htmlBuffer = b.htmlBuffer],
              BuildBuffer(segments, 0, <<>>)),
       splitIntoSegments(L.input))

\* formattedHtml = await prettier.format(htmlBuffer, ...)
HtmlFormatted(L, formatted) ==
  [L EXCEPT !.html = "formatted", !.formattedHtml = formatted,
            !.out = formatted, !.p = 0]

\* the rejection of prettier.format left to the caller
HtmlUncaught(L) == [L EXCEPT !.html = "failed", !.pc = "rejected"]

\* catch { formattedHtml = htmlBuffer; }
HtmlCaught(L) ==
  [L EXCEPT !.html = "failed", !.formattedHtml = L.htmlBuffer,
            !.out = L.htmlBuffer, !.p = 0]

\* catch (e) { ...; disableJavaPluginForThisRun = true; return null; }
PluginCaught(L) ==
  [Logged(L, "fail") EXCEPT !.pc = "awaitFragment", !.java = Null]

\* the argument `code` and `mode` of tryFormatJavaFragment
CodeOf(L) == stripCommonIndent(SegAt(L).inner)

ModeOf(L) == IF SegAt(L).kind = "jsp-decl" THEN "decl" ELSE "scriptlet"

\* the rest of tryFormatJavaFragment once prettier.format has resolved
PluginFormatted(L) ==
  [Logged(L, "ok") EXCEPT
     !.pc = "awaitFragment",
     !.java = Bind(LAMBDA code :
                     Bind(LAMBDA formatted :
                            UnwrapFragment(formatted, code, ModeOf(L)),
                          JavaFormatted(code, ModeOf(L), L.opts.tabWidth)),
                   CodeOf(L))]

\* block = java ? ... : the fallback, and the reinsertion
FragmentDone(L) ==
  Bind(LAMBDA block : IF Truthy(L.java) THEN Reinsert(L, block)
                      ELSE Reinsert(Logged(L, "fallback"), block),
       JavaBlock(SegAt(L), L.opts, L.java))

(***************************************************************************)
(* Actions: provideDocumentFormattingEdits and the resumptions of          *)
(* formatJspDocument and tryFormatJavaFragment at their awaits             *)
(***************************************************************************)
Keep == UNCHANGED <<arg, res, fn>>

\* the provider is called: formatJspDocument runs up to its first await
Format(r) ==
  /\ pass[r].pc = "idle"
  /\ disableJavaPluginForThisRun' = FALSE
  /\ pass' = [pass EXCEPT ![r] = StartPass(@)]
  /\ Keep

\* prettier.format(htmlBuffer) resolves
HtmlResolved(r) ==
  /\ pass[r].pc = "awaitHtml"
  /\ \E formatted \in HtmlOutputs(pass[r].htmlBuffer, pass[r].opts.tabWidth,
                                  MaxDepth) :
       pass' = [pass EXCEPT ![r] = RunLoop(HtmlFormatted(@, formatted),
                                           disableJavaPluginForThisRun)]
  /\ UNCHANGED disableJavaPluginForThisRun
  /\ Keep

\* prettier.format(htmlBuffer) rejects
HtmlRejected(r) ==
  /\ pass[r].pc = "awaitHtml"
  /\ pass' = [pass EXCEPT ![r] =
                IF HtmlCaught(@).pc = "rejected" THEN HtmlCaught(@)
                ELSE RunLoop(HtmlCaught(@), disableJavaPluginForThisRun)]
  /\ UNCHANGED disableJavaPluginForThisRun
  /\ Keep

\* import("prettier-plugin-java") resolves: prettier.format is called
ImportResolved(r) ==
  /\ pass[r].pc = "awaitImport"
  /\ pass' = [pass EXCEPT ![r].pc = "awaitFormat"]
  /\ UNCHANGED disableJavaPluginForThisRun
  /\ Keep

\* import("prettier-plugin-java") rejects
ImportRejected(r) ==
  /\ pass[r].pc = "awaitImport"
  /\ pass' = [pass EXCEPT ![r] = PluginCaught(@)]
  /\ disableJavaPluginForThisRun' = TRUE
  /\ Keep

\* prettier.format(wrapped) resolves
FormatResolved(r) ==
  /\ pass[r].pc = "awaitFormat"
  /\ pass' = [pass EXCEPT ![r] = PluginFormatted(@)]
  /\ UNCHANGED disableJavaPluginForThisRun
  /\ Keep

\* prettier.format(wrapped) rejects
FormatRejected(r) ==
  /\ pass[r].pc = "awaitFormat"
  /\ pass' = [pass EXCEPT ![r] = PluginCaught(@)]
  /\ disableJavaPluginForThisRun' = TRUE
  /\ Keep

\* formatJspDocument resumes after `await tryFormatJavaFragment(...)`
FragmentResumed(r) ==
  /\ pass[r].pc = "awaitFragment"
  /\ pass' = [pass EXCEPT ![r] =
                Bind(LAMBDA L : RunLoop(L, disableJavaPluginForThisRun),
                     FragmentDone(@))]
  /\ UNCHANGED disableJavaPluginForThisRun
  /\ Keep

\* the provider resumes after `await formatJspDocument(...)` and returns
\* [vscode.TextEdit.replace(fullRange, formatted)]
ProvideEdits(r) ==
  /\ pass[r].pc = "resolved"
  /\ pass' = [pass EXCEPT ![r].pc = "done", ![r].edits = <<pass[r].out>>]
  /\ UNCHANGED disableJavaPluginForThisRun
  /\ Keep

Next ==
  \E r \in Requests :
    \/ Format(r)
    \/ HtmlResolved(r)
    \/ HtmlRejected(r)
    \/ ImportResolved(r)
    \/ ImportRejected(r)
    \/ FormatResolved(r)
    \/ FormatRejected(r)
    \/ FragmentResumed(r)
    \/ ProvideEdits(r)

(***************************************************************************)
(* Documents                                                               *)
(***************************************************************************)
\* markup
PartText == <<"x">>

\* a closing delimiter without its opening delimiter
PartStrayClose == <<"%", ">">>

\* <%a;%>
PartScriptlet == <<"<", "%", "a", ";", "%", ">">>

\* <%=a%>
PartExpr == <<"<", "%", "=", "a", "%", ">">>

\* <%@p b=1 a=2%>
PartDirective ==
  <<"<", "%", "@", "p", " ", "b", "=", "1", " ", "a", "=", "2", "%", ">">>

\* <%!int a;%>
PartDecl == <<"<", "%", "!", "i", "n", "t", " ", "a", ";", "%", ">">>

\* a scriptlet of three lines with a brace block
PartBraces ==
  <<"<", "%", "i", "f", "(", "x", ")", "{", "\n", "a", ";", "\n", "}",
    "%", ">">>

Parts ==
  {PartText, PartStrayClose, PartScriptlet, PartExpr, PartDirective, PartDecl,
   PartBraces}

JavaParts == {PartScriptlet, PartDecl}

RECURSIVE DocsUpTo(_, _)
\* the documents made of at most n parts of P
DocsUpTo(P, n) ==
  IF n = 0 THEN {<<>>}
  ELSE DocsUpTo(P, n - 1) \cup {d \o q : d \in DocsUpTo(P, n - 1), q \in P}

(***************************************************************************)
(* One formatting request                                                  *)
(***************************************************************************)
Init ==
  /\ arg = <<>> /\ res = <<>> /\ fn = "none"
  /\ disableJavaPluginForThisRun = FALSE
  /\ \E input \in DocsUpTo(Parts, MaxParts), opts \in OptionSets :
       pass = [r \in Requests |->
                 IF r = 1 THEN NewRequest(input, opts) ELSE NoRequest]

Spec == Init /\ [][Next]_vars

InitLive ==
  /\ arg = <<>> /\ res = <<>> /\ fn = "none"
  /\ disableJavaPluginForThisRun = FALSE
  /\ \E input \in DocsUpTo(Parts, MaxLiveParts), opts \in OptionSets :
       pass = [r \in Requests |->
                 IF r = 1 THEN NewRequest(input, opts) ELSE NoRequest]

\* every awaited promise settles
SpecLive == InitLive /\ [][Next]_vars /\ WF_vars(Next)

(***************************************************************************)
(* Requests that overlap at their awaits                                   *)
(***************************************************************************)
InitOverlap ==
  /\ arg = <<>> /\ res = <<>> /\ fn = "none"
  /\ disableJavaPluginForThisRun = FALSE
  /\ pass \in [Requests ->
                 {NewRequest(input, opts) :
                    input \in DocsUpTo(JavaParts, MaxOverlapParts) \ {<<>>},
                    opts \in {o \in OptionSets :
                                o.javaFormat = "auto" /\ o.blockIndent = 0}}]

SpecOverlap == InitOverlap /\ [][Next]_vars

(***************************************************************************)
(* Segmenter applied to every text of bounded length                       *)
(***************************************************************************)
SegChars == {"<", "%", ">", "x", "\n"}

RECURSIVE TextsUpTo(_, _)
TextsUpTo(C, n) ==
  IF n = 0 THEN {<<>>}
  ELSE LET shorter == TextsUpTo(C, n - 1)
       IN shorter \cup {Append(t, c) : t \in {u \in shorter : Len(u) = n - 1},
                                       c \in C}

InitSeg ==
  /\ arg \in TextsUpTo(SegChars, MaxSegLen)
  /\ res = <<>>
  /\ fn = "none"
  /\ pass = [r \in Requests |-> NoRequest]
  /\ disableJavaPluginForThisRun = FALSE

ApplySplitIntoSegments ==
  /\ fn = "none"
  /\ res' = splitIntoSegments(arg)
  /\ fn' = "splitIntoSegments"
  /\ UNCHANGED <<arg, pass, disableJavaPluginForThisRun>>

NextSeg == ApplySplitIntoSegments

SpecSeg == InitSeg /\ [][NextSeg]_vars

RECURSIVE Flatten(_)
\* concatenation of a sequence of texts
Flatten(ss) == IF ss = <<>> THEN <<>> ELSE Head(ss) \o Flatten(Tail(ss))

\* the original span of a segment
SpanOf(seg) == IF seg.kind = "html" THEN seg.text ELSE seg.raw

SpansOf(segs) == Flatten([i \in 1..Len(segs) |-> SpanOf(segs[i])])

\* C1: the spans of the segments of splitIntoSegments, concatenated in
\* order, are the input text, for every text, also with unbalanced or
\* malformed delimiters.
C1_Lossless == fn = "splitIntoSegments" => SpansOf(res) = arg

\* a code block with an empty body followed by an unmatched opening delimiter
C1_Witness ==
  /\ fn = "splitIntoSegments"
  /\ Len(res) = 2
  /\ res[1].kind = "jsp-scriptlet" /\ res[1].raw = OpenTag \o CloseTag
  /\ res[2].kind = "html" /\ res[2].text = OpenTag

(***************************************************************************)
(* Properties of a formatting pass                                         *)
(***************************************************************************)
Returned(r) == pass[r].pc \in {"resolved", "done"}

\* the 0-based placeholders of the Java segments of a request
JavaPlaceholders(r) ==
  {k \in 0..(Len(pass[r].placeholderMap) - 1) :
     IsJava(pass[r].segments[pass[r].placeholderMap[k + 1] + 1])}

Happened(r, ev, k) ==
  \E j \in 1..Len(pass[r].trace) :
    pass[r].trace[j].ev = ev /\ pass[r].trace[j].p = k

\* no call of the Java plugin comes after a failure in the trace of r
NoCallAfterFailure(r) ==
  \A i, j \in 1..Len(pass[r].trace) :
    i < j /\ pass[r].trace[i].ev = "fail"
      => pass[r].trace[j].ev \notin {"try", "ok"}

C3_FlagPerPass ==
  \A r \in Requests :
    /\ \A j \in 1..Len(pass[r].trace) :
         pass[r].trace[j].ev = "skip"
           => \E i \in 1..(j - 1) : pass[r].trace[i].ev = "fail"
    /\ NoCallAfterFailure(r)

NonWs(t) == SelectSeq(t, LAMBDA c : ~IsWs(c))

HasMarker(t) == \E i \in 1..Len(t) : IsMarker(t[i])

RECURSIVE InOrder(_, _, _)
\* the texts bs occur in t one after the other from the 0-based position on
InOrder(t, bs, from) ==
  IF bs = <<>> THEN TRUE
  ELSE LET i == IndexOf(t, Head(bs), from)
       IN i # -1 /\ InOrder(t, Tail(bs), i + Len(Head(bs)))

\* the finished blocks of the placeholders a..b of a request, without blanks
BlocksOf(r, a, b) ==
  [k \in 1..(b - a + 1) |-> NonWs(pass[r].splices[a + k].block)]

\* C4: the final output holds the finished block of every non-markup
\* segment, in document order, and no placeholder, whatever the markup
\* formatter returned and also when it failed.
C4_EveryBlockOnce ==
  \A r \in Requests :
    Returned(r) =>
      /\ ~HasMarker(pass[r].out)
      /\ InOrder(NonWs(pass[r].out),
                 BlocksOf(r, 0, Len(pass[r].placeholderMap) - 1), 0)

\* C5: a reinsertion keeps the text of the buffer outside the placeholder:
\* what was before the placeholder is still before the block and what was
\* after it is still after the block, and a block of one line stays on the
\* line of the content that preceded its placeholder.
C5_MarkupKept ==
  \A r \in Requests :
    \A n \in 1..Len(pass[r].splices) :
      LET s   == pass[r].splices[n]
          idx == IndexOf(s.whole, s.token, 0)
          before == Slice(s.whole, 0, idx)
          after  == SliceFrom(s.whole, idx + Len(s.token))
      IN idx # -1 =>
           /\ StartsWith(NonWs(s.result), NonWs(before) \o NonWs(s.block))
           /\ EndsWith(NonWs(s.result), NonWs(s.block) \o NonWs(after))
           /\ (IndexOf(s.block, <<NL>>, 0) = -1
                 /\ Trim(SliceFrom(before, getLineBounds(s.whole, idx).lineStart))
                      # <<>>)
                => StartsWith(s.result, before)

\* a line of t has a closing delimiter and, after it, an opening delimiter
TagsCollide(t) ==
  \E i \in 1..Len(SplitLines(t)) :
    LET l == SplitLines(t)[i]
        c == IndexOf(l, CloseTag, 0)
    IN c # -1 /\ IndexOf(l, OpenTag, c + 2) # -1

\* C6: two code blocks with nothing between them in the document are both
\* in the final output, on separate lines, whatever the markup formatter
\* did with their placeholders.
C6_AdjacentBlocksSeparated ==
  \A r \in Requests :
    Returned(r) =>
      \A k \in 0..(Len(pass[r].placeholderMap) - 2) :
        pass[r].placeholderMap[k + 2] = pass[r].placeholderMap[k + 1] + 1
          => /\ InOrder(NonWs(pass[r].out), BlocksOf(r, k, k + 1), 0)
             /\ ~TagsCollide(pass[r].out)

\* number of line breaks of a text
Breaks(t) == CountChar(t, NL)

\* the lines that a reinsertion s put in the place of the placeholder's
\* line: as many as the block has, right before the lines that followed
\* the placeholder's line
InsertedLines(s) ==
  LET idx   == IndexOf(s.whole, s.token, 0)
      below == Breaks(SliceFrom(s.whole, getLineBounds(s.whole, idx).lineEnd))
      lines == SplitLines(s.result)
      m     == Breaks(s.block) + 1
  IN SubSeq(lines, Len(lines) - below - m + 1, Len(lines) - below)

\* the whitespace run W that starts the line of the placeholder
MarkerIndent(s) ==
  LET idx  == IndexOf(s.whole, s.token, 0)
      b    == getLineBounds(s.whole, idx)
      line == Slice(s.whole, b.lineStart, b.lineEnd)
  IN Slice(line, 0, LeadingBlankLen(line))

\* the line l is the indentation `ind` and then no blank
IndentedBy(l, ind) ==
  StartsWith(l, ind) /\ (Len(l) = Len(ind) \/ ~IsBlank(l[Len(ind) + 1]))

C8_RelativeIndentKept ==
  \A r \in Requests :
    \A n \in 1..Len(pass[r].splices) :
      LET s  == pass[r].splices[n]
          ls == InsertedLines(s)
          bl == SplitLines(s.block)
      IN IndexOf(s.whole, s.token, 0) # -1 =>
           \A i, j \in 2..(Len(bl) - 1) :
             LeadingBlankLen(ls[j]) - LeadingBlankLen(ls[i])
               = LeadingBlankLen(bl[j]) - LeadingBlankLen(bl[i])

\* C9 (safety part): no rejection reaches the caller, a pass that has
\* returned has made one edit with its output, and after a failure of the
\* markup formatter the marker buffer itself is what the blocks are
\* reinserted into.
NoFatalState ==
  \A r \in Requests :
    /\ pass[r].pc # "rejected"
    /\ pass[r].html = "failed" => pass[r].formattedHtml = pass[r].htmlBuffer
    /\ pass[r].pc = "done" => pass[r].edits = <<pass[r].out>>

\* C9: formatJspDocument has no fatal path: whatever the input and whatever
\* the outcomes of the markup formatter, of the import of the plugin and of
\* the plugin, no error reaches the caller and the pass ends with an output
\* document; when the markup formatter fails the marker buffer is used.
C9_NoFatalPath ==
  /\ []NoFatalState
  /\ \A r \in Requests : (pass[r].pc = "idle") ~> (pass[r].pc = "done")

\* a pass has ended although the markup formatter and the plugin failed
C9_Witness ==
  /\ pass[1].pc = "done"
  /\ pass[1].html = "failed"
  /\ Happened(1, "fail", 0)
  /\ Len(pass[1].edits) = 1

\* C10: with javaFormat off or indent-only a pass never calls the Java
\* plugin: off emits the inner code as it is, indent-only takes the block
\* from the fallback formatter; in auto mode the plugin is called for
\* scriptlets and declarations only.
C10_PluginOnlyInAuto ==
  \A r \in Requests :
    /\ \A j \in 1..Len(pass[r].trace) :
         pass[r].trace[j].ev \in {"try", "skip", "ok", "fail"}
           => /\ pass[r].opts.javaFormat = "auto"
              /\ pass[r].trace[j].p \in JavaPlaceholders(r)
    /\ \A k \in JavaPlaceholders(r) :
         k < Len(pass[r].splices) =>
           LET seg == pass[r].segments[pass[r].placeholderMap[k + 1] + 1]
               block == pass[r].splices[k + 1].block
           IN /\ pass[r].opts.javaFormat = "off"
                   => /\ block = OpenOf(seg) \o <<" ">> \o seg.inner
                                   \o <<" ", "%", ">">>
                      /\ ~Happened(r, "fallback", k)
              /\ pass[r].opts.javaFormat = "indent-only"
                   => /\ block = FallbackBlock(seg, pass[r].opts)
                      /\ Happened(r, "fallback", k)

\* a pass in indent-only mode has returned a document with a scriptlet or a
\* declaration next to a directive or an expression
C10_Witness ==
  /\ Returned(1)
  /\ pass[1].opts.javaFormat = "indent-only"
  /\ Len(pass[1].splices) = 2
  /\ Cardinality(JavaPlaceholders(1)) = 1

(***************************************************************************)
(* normalizeDirective applied to directive bodies                          *)
(***************************************************************************)
\* number of attributes of a directive body
MaxAttrs == 3

\* how a body starts: with its name, or with "@" before it, which leaves a
\* body without a name when a blank follows the first "@"
DirStarts == {<<"p">>, <<"@", "p">>, <<"@", " ", "@", "p">>}

\* attributes as they are written after the name: double-quoted values,
\* values without quotes, a single-quoted value, a word without a value
DirAttrs ==
  {<<" ", "b", "=", "\"", "2", "\"">>, <<" ", "a", "=", "\"", "1", "\"">>, <<" ", "a", "=", "3">>, <<" ", "b", "=", "2">>, <<" ", "c", "=", "'", "3", "'">>, <<" ", "x">>,
   <<" ", " ", "d", " ", "=", " ", "\"", "e", " ", "f", "\"">>}

InitDir ==
  /\ arg \in {s \o d : s \in DirStarts,
                       d \in DocsUpTo(DirAttrs, MaxAttrs)}
  /\ res = <<>>
  /\ fn = "none"
  /\ pass = [r \in Requests |-> NoRequest]
  /\ disableJavaPluginForThisRun = FALSE

ApplyNormalizeDirective ==
  /\ fn = "none"
  /\ res' = normalizeDirective(arg)
  /\ fn' = "normalizeDirective"
  /\ UNCHANGED <<arg, pass, disableJavaPluginForThisRun>>

\* normalizeDirective applied to its own result
NormalizeAgain ==
  /\ fn = "normalizeDirective"
  /\ res' = [once |-> res, twice |-> normalizeDirective(res)]
  /\ fn' = "normalizeDirective twice"
  /\ UNCHANGED <<arg, pass, disableJavaPluginForThisRun>>

SpecDir == InitDir /\ [][ApplyNormalizeDirective \/ NormalizeAgain]_vars

\* the body as normalizeDirective reads it: without "@" and trimmed
DirBody(x) == Trim(DropLeading(x, {"@"}))

\* the name of a body, <<>> when it has none
DirName(x) == Slice(DirBody(x), 0, RunLen(DirBody(x), WordChars))

\* the remainder of a body after its name
DirRest(x) == TrimStart(SliceFrom(DirBody(x), Len(DirName(x))))

RECURSIVE Unrecognized(_, _)
\* the characters of rest, from the 0-based position i on, that are in no
\* key/value pair the attribute pattern recognizes
Unrecognized(rest, i) ==
  IF i >= Len(rest) THEN <<>>
  ELSE IF AttrAt(rest, i).ok THEN Unrecognized(rest, AttrAt(rest, i).end)
  ELSE <<rest[i + 1]>> \o Unrecognized(rest, i + 1)

\* text of the remainder that is neither a recognized pair nor a blank
UnrecognizedText(x) ==
  SelectSeq(Unrecognized(DirRest(x), 0), LAMBDA c : ~IsWs(c))

\* a body with a name whose attributes are all recognized
ParseableAttrs(x) == DirName(x) # <<>> /\ UnrecognizedText(x) = <<>>

\* C11: normalizeDirective is idempotent on the directive bodies with
\* parseable attributes: applied to its own result it returns that result.
C11_Idempotent ==
  fn = "normalizeDirective twice" /\ ParseableAttrs(arg)
    => res.twice = res.once

\* two attributes with the same key and a third one that sorts before them
\* have been normalized twice
C11_Witness ==
  /\ fn = "normalizeDirective twice"
  /\ arg = <<"p", " ", "b", "=", "\"", "2", "\"", " ", "b", "=", "2", " ", "a", "=", "3">>
  /\ res.once = <<"p", " ", "a", "=", "\"", "3", "\"", " ", "b", "=", "\"", "2", "\"", " ", "b", "=", "\"", "2", "\"">>

\* k="v"
RenderedPair(pr) == pr.k \o <<"=", "\"">> \o pr.v \o <<"\"">>

\* no pair comes before a pair with a smaller key
SortedByKey(ps) ==
  \A i \in 1..(Len(ps) - 1) : ~LocaleLess(ps[i + 1].k, ps[i].k)

\* C12: when normalizeDirective recognizes key/value pairs, its result is
\* the name and then the recognized pairs in an order sorted by key, each as
\* key="value" after a single space; b="2" a="1" gives a="1" b="2".
C12_AttrsSorted ==
  fn = "normalizeDirective" /\ DirName(arg) # <<>>
      /\ AttrPairs(DirRest(arg), 0) # <<>>
    => LET ps == AttrPairs(DirRest(arg), 0)
       IN \E f \in Permutations(1..Len(ps)) :
            LET qs == [i \in 1..Len(ps) |-> ps[f[i]]]
            IN /\ SortedByKey(qs)
               /\ res = DirName(arg)
                          \o Flatten([i \in 1..Len(qs) |->
                                        <<" ">> \o RenderedPair(qs[i])])

\* the body p b="2" a="1" has been normalized
C12_Witness ==
  /\ fn = "normalizeDirective"
  /\ arg = <<"p", " ", "b", "=", "\"", "2", "\"", " ", "a", "=", "\"", "1", "\"">>
  /\ res = <<"p", " ", "a", "=", "\"", "1", "\"", " ", "b", "=", "\"", "2", "\"">>

\* C13: when the remainder after the name has attribute text that the
\* pattern does not recognize, here a quoted value, normalizeDirective
\* returns the body unchanged, and not a rendering without that text.
C13_PassthroughOnUnrecognized ==
  fn = "normalizeDirective" /\ DirName(arg) # <<>>
      /\ (\E i \in 1..Len(UnrecognizedText(arg)) :
            UnrecognizedText(arg)[i] \in {"'", "\""})
    => res = DirBody(arg)

(***************************************************************************)
(* splitStatementsRespectingQuotes applied to lines                        *)
(***************************************************************************)
MaxSplitLen == 5

SplitChars == {";", "\"", "'", "(", ")", "\\", "x"}

PrintLine == <<"o", "u", "t", ".", "p", "r", "i", "n", "t", "l", "n", "(", "\"", ";", "\"", ")", ";", " ", "x", "=", "1", ";">>

ForLine == <<"f", "o", "r", "(", "i", "=", "0", ";", "i", "<", "1", "0", ";", "i", "+", "+", ")", "{", "x", "+", "+", ";", "}">>

InitSplit ==
  /\ arg \in TextsUpTo(SplitChars, MaxSplitLen) \cup {PrintLine, ForLine}
  /\ res = <<>>
  /\ fn = "none"
  /\ pass = [r \in Requests |-> NoRequest]
  /\ disableJavaPluginForThisRun = FALSE

ApplySplit ==
  /\ fn = "none"
  /\ res' = splitStatementsRespectingQuotes(arg)
  /\ fn' = "splitStatementsRespectingQuotes"
  /\ UNCHANGED <<arg, pass, disableJavaPluginForThisRun>>

SpecSplit == InitSplit /\ [][ApplySplit]_vars

RECURSIVE Escaped(_, _)
\* line[i] follows a backslash that is not itself escaped
Escaped(line, i) == i > 1 /\ line[i - 1] = "\\" /\ ~Escaped(line, i - 1)

\* line[i] stands for itself: it is not escaped and escapes nothing
Plain(line, i) == line[i] # "\\" /\ ~Escaped(line, i)

RECURSIVE Literal(_, _)
\* the quote of the literal that is open after line[1..i], "" outside literals
Literal(line, i) ==
  IF i = 0 THEN ""
  ELSE Bind(LAMBDA open :
              IF ~Plain(line, i) THEN open
              ELSE IF open = ""
              THEN IF line[i] \in {"\"", "'"} THEN line[i] ELSE ""
              ELSE IF line[i] = open THEN "" ELSE open,
            Literal(line, i - 1))

RECURSIVE Depth(_, _)
\* the parenthesis depth after line[1..i], counted outside literals
Depth(line, i) ==
  IF i = 0 THEN 0
  ELSE Bind(LAMBDA d :
              IF Plain(line, i) /\ Literal(line, i) = ""
              THEN IF line[i] = "(" THEN d + 1
                   ELSE IF line[i] = ")" THEN Max2(0, d - 1)
                   ELSE d
              ELSE d,
            Depth(line, i - 1))

TopLevelSemicolons(line) ==
  {i \in 1..Len(line) : /\ line[i] = ";"
                        /\ ~Escaped(line, i)
                        /\ Literal(line, i) = ""
                        /\ Depth(line, i) = 0}

RECURSIVE PiecesFrom(_, _, _)
\* line from position from on, cut after each position of cuts and trimmed
PiecesFrom(line, cuts, from) ==
  LET later == {c \in cuts : c >= from}
  IN IF later = {}
     THEN IF Trim(SubSeq(line, from, Len(line))) = <<>> THEN <<>>
          ELSE <<Trim(SubSeq(line, from, Len(line)))>>
     ELSE LET c == CHOOSE m \in later : \A o \in later : m <= o
          IN <<Trim(SubSeq(line, from, c))>> \o PiecesFrom(line, cuts, c + 1)

\* C14: the statements of a line are its pieces cut after exactly the
\* semicolons that are unescaped, outside literals and at parenthesis depth
\* zero; the println line gives two statements and the for header is not cut
C14_SplitAtTopLevel ==
  fn = "splitStatementsRespectingQuotes" =>
    /\ res = PiecesFrom(arg, TopLevelSemicolons(arg), 1)
    /\ arg = PrintLine => Len(res) = 2
    /\ arg = ForLine => /\ Len(res[1]) >= 17
                        /\ SubSeq(res[1], 1, 17) = SubSeq(ForLine, 1, 17)

C14_Witness ==
  /\ fn = "splitStatementsRespectingQuotes"
  /\ arg = PrintLine
  /\ res = <<<<"o", "u", "t", ".", "p", "r", "i", "n", "t", "l", "n", "(", "\"", ";", "\"", ")", ";">>, <<"x", "=", "1", ";">>>>

(***************************************************************************)
(* formatJavaPrettyFallback, one line of its loop at a time.  res holds    *)
(* lines, the number k of lines the loop has taken, the state st of the    *)
(* loop, and trace, the states of the loop so far: trace[j + 1] is the     *)
(* state after j lines.                                                    *)
(***************************************************************************)
MaxFmtLines == 4

FmtLines ==
  {<<"i", "f", " ", "(", "c", ")", " ", "{">>, <<"}">>, <<"}", " ", "e", "l", "s", "e", " ", "{">>, <<"x", ";">>, <<"s", "w", "i", "t", "c", "h", " ", "(", "x", ")", " ", "{">>, <<"c", "a", "s", "e", " ", "1", ":">>,
   <<"d", "e", "f", "a", "u", "l", "t", ":", " ", "y", ";">>, <<"i", "f", " ", "(", "c", ")", " ", "x", ";">>, <<"i", "f", " ", "(", "c", ")", " ", "f", "(", "x", ")", ";">>}

SwitchLine == <<"s", "w", "i", "t", "c", "h", "(", "x", ")", "{", "c", "a", "s", "e", " ", "1", ":", " ", "y", "=", "1", ";", " ", "b", "r", "e", "a", "k", ";", " ", "d", "e", "f", "a", "u", "l", "t", ":", " ", "y", "=", "2", ";", "}">>

InitFmt ==
  /\ arg \in DocsUpTo({l \o <<NL>> : l \in FmtLines}, MaxFmtLines)
               \cup {SwitchLine}
  /\ res = <<>>
  /\ fn = "none"
  /\ pass = [r \in Requests |-> NoRequest]
  /\ disableJavaPluginForThisRun = FALSE

StartFallback ==
  /\ fn = "none"
  /\ res' = LET st0 == [level |-> 0, out |-> <<>>, switchLevels |-> <<>>]
            IN [lines |-> SplitLines(JoinBraceKeyword(arg)), k |-> 0,
                st |-> st0, trace |-> <<st0>>]
  /\ fn' = "for (let raw of lines)"
  /\ UNCHANGED <<arg, pass, disableJavaPluginForThisRun>>

FallbackLine ==
  /\ fn = "for (let raw of lines)"
  /\ res.k < Len(res.lines)
  /\ res' = Bind(LAMBDA next : [res EXCEPT !.k = @ + 1, !.st = next,
                                           !.trace = Append(@, next)],
                 ProcessLine(res.st, res.lines[res.k + 1], DefaultTabWidth))
  /\ UNCHANGED <<arg, fn, pass, disableJavaPluginForThisRun>>

FallbackReturn ==
  /\ fn = "for (let raw of lines)"
  /\ res.k = Len(res.lines)
  /\ res' = JoinLines(res.st.out)
  /\ fn' = "formatJavaPrettyFallback"
  /\ UNCHANGED <<arg, pass, disableJavaPluginForThisRun>>

SpecFmt == InitFmt /\ [][StartFallback \/ FallbackLine \/ FallbackReturn]_vars

\* FallbackReturn returns what the function computes in one go
FmtStepsAgree ==
  fn = "formatJavaPrettyFallback" =>
    res = formatJavaPrettyFallback(arg, DefaultTabWidth)

\* C16: the level of the loop is never negative
C16_LevelNonNegative ==
  fn = "for (let raw of lines)" => res.st.level >= 0

\* opening minus closing braces outside literals of the lines from..to
RECURSIVE BracesOfRun(_, _, _)
BracesOfRun(lines, from, to) ==
  IF from > to THEN 0
  ELSE BraceDelta(Trim(lines[from])) + BracesOfRun(lines, from + 1, to)

\* the lines i + 1..j close what they open, and no prefix of them closes
\* more than it has opened
BalancedRun(lines, i, j) ==
  /\ BracesOfRun(lines, i + 1, j) = 0
  /\ \A m \in (i + 1)..j : BracesOfRun(lines, i + 1, m) >= 0

\* C17: a line changes the level by its opening minus its closing braces
\* outside literals, floored at zero, and after a balanced run of lines the
\* level is what it was before the run
C17_LevelFollowsBraces ==
  fn = "for (let raw of lines)" =>
    /\ \A j \in 1..res.k :
         res.trace[j + 1].level =
           Max2(0, res.trace[j].level + BraceDelta(Trim(res.lines[j])))
    /\ \A i \in 0..res.k : \A j \in i..res.k :
         BalancedRun(res.lines, i, j) =>
           res.trace[j + 1].level = res.trace[i + 1].level

\* the number of spaces before the text of a printed line
PadOf(printed) == Len(printed) - Len(DropLeading(printed, {" "}))

\* the first line that the loop printed for the line j of the input
PrintedFor(j) == res.trace[j + 1].out[Len(res.trace[j].out) + 1]

\* the line j of the input is one the loop prints something for
Prints(j) == Trim(res.lines[j]) # <<>>

\* the line that opened the block whose closing brace starts the line j:
\* the last one before j that ends with "{" and is followed up to j by
\* lines that close what they open; 0 when there is none
OpenerOf(lines, j) ==
  LET cands == {i \in 1..(j - 1) : /\ EndsWith(Trim(lines[i]), <<"{">>)
                                   /\ BalancedRun(lines, i, j - 1)}
  IN IF cands = {} THEN 0
     ELSE CHOOSE i \in cands : \A o \in cands : o <= i

\* the line m is a line of the body of the block that the line i opens
InBodyOf(lines, i, m) ==
  /\ i < m
  /\ BalancedRun(lines, i, m - 1)
  /\ ~StartsWith(Trim(lines[m]), <<"}">>)

\* a control header that ends with an opening brace
BraceHeader(line) ==
  /\ EndsWith(line, <<"{">>)
  /\ \/ startsWithAny(line, controlStarters)
     \/ StartsWith(line, <<"}", " ">> \o KwElse)

\* each of the first k lines that starts with a closing brace closes a block
\* that an earlier line opened
ClosesOnlyOpened(lines, k) ==
  \A j \in 1..k : StartsWith(Trim(lines[j]), <<"}">>) => OpenerOf(lines, j) # 0

\* C18: a line that starts with a closing brace is printed at the level of
\* the line that opened the block it closes, and the lines of the body of a
\* control header that ends with "{" are printed one level deeper than it
C18_BlockShape ==
  fn = "for (let raw of lines)" /\ ClosesOnlyOpened(res.lines, res.k) =>
    \A j \in 1..res.k :
      /\ StartsWith(Trim(res.lines[j]), <<"}">>) =>
           PadOf(PrintedFor(j)) = PadOf(PrintedFor(OpenerOf(res.lines, j)))
      /\ \A i \in 1..(j - 1) :
           BraceHeader(Trim(res.lines[i])) /\ Prints(j)
             /\ InBodyOf(res.lines, i, j) =>
             PadOf(PrintedFor(j)) = PadOf(PrintedFor(i)) + DefaultTabWidth

\* a control header without a brace, and the statements that follow it on
\* its line in the lines of FmtLines
CondHeader == <<"i", "f", " ", "(", "c", ")">>

BodyStmts == {<<"x", ";">>, <<"f", "(", "x", ")", ";">>}

\* C19: for a line made of a control header and one statement, met at a
\* level L that is not negative, the loop prints the header up to the
\* parenthesis that closes its condition at level L and the whole statement
\* at level L + 1, and leaves the level at L
C19_BracelessBody ==
  fn = "for (let raw of lines)" =>
    \A j \in 1..res.k : \A stmt \in BodyStmts :
      /\ Trim(res.lines[j]) = CondHeader \o <<" ">> \o stmt
      /\ res.trace[j].level >= 0
      => LET L == res.trace[j].level
         IN /\ res.trace[j + 1].out =
                 res.trace[j].out
                   \o <<Spaces(L * DefaultTabWidth) \o CondHeader,
                        Spaces((L + 1) * DefaultTabWidth) \o stmt>>
            /\ res.trace[j + 1].level = L

\* the same for the statement that has no parentheses of its own
BracelessPlainBody ==
  fn = "for (let raw of lines)" =>
    \A j \in 1..res.k :
      /\ Trim(res.lines[j]) = CondHeader \o <<" ">> \o <<"x", ";">>
      /\ res.trace[j].level >= 0
      => LET L == res.trace[j].level
         IN /\ res.trace[j + 1].out =
                 res.trace[j].out
                   \o <<Spaces(L * DefaultTabWidth) \o CondHeader,
                        Spaces((L + 1) * DefaultTabWidth) \o <<"x", ";">>>>
            /\ res.trace[j + 1].level = L

\* the line that opens a switch body
SwitchHeader(line) == HasSwitchParen(line) /\ EndsWith(line, <<"{">>)

\* C20: in the body of a switch that a line `switch (...) {` opened, a
\* statement that is no case or default label is printed one level deeper
\* than the labels of that switch before it; after the closing brace of the
\* switch, statements are printed at the level of the switch line again
C20_SwitchBodyDeeper ==
  fn = "for (let raw of lines)" /\ ClosesOnlyOpened(res.lines, res.k) =>
    \A s \in 1..res.k : \A j \in (s + 1)..res.k :
      /\ SwitchHeader(Trim(res.lines[s]))
      /\ Prints(j)
      /\ ~CaseMatch(Trim(res.lines[j])).ok
      => /\ InBodyOf(res.lines, s, j) =>
              \A m \in (s + 1)..(j - 1) :
                InBodyOf(res.lines, s, m) /\ CaseMatch(Trim(res.lines[m])).ok
                  => PadOf(PrintedFor(j)) =
                       PadOf(PrintedFor(m)) + DefaultTabWidth
         /\ BalancedRun(res.lines, s - 1, j - 1)
              /\ ~StartsWith(Trim(res.lines[j]), <<"}">>) =>
              PadOf(PrintedFor(j)) = PadOf(PrintedFor(s))

\* the labels of SwitchLine, each with the statements that belong to it
SwitchLabels ==
  {[label |-> <<"c", "a", "s", "e", " ", "1", ":">>, stmts |-> {<<"y", "=", "1", ";">>, <<"b", "r", "e", "a", "k", ";">>}],
   [label |-> <<"d", "e", "f", "a", "u", "l", "t", ":">>, stmts |-> {<<"y", "=", "2", ";">>}]}

\* C15: in the result for SwitchLine every case and default label is a line
\* of its own, all labels at one level, and every statement of a label is a
\* line one level deeper than its label
C15_SwitchOneLine ==
  fn = "formatJavaPrettyFallback" /\ arg = SwitchLine =>
    LET out == SplitLines(res)
    IN \E level \in 0..2 :
         \A g \in SwitchLabels :
           /\ \E i \in 1..Len(out) :
                out[i] = Spaces(level * DefaultTabWidth) \o g.label
           /\ \A stmt \in g.stmts :
                \E j \in 1..Len(out) :
                  out[j] = Spaces((level + 1) * DefaultTabWidth) \o stmt

(***************************************************************************)
(* formatJavaPrettyFallback on code made of headers, braces, statements,   *)
(* labels and white space in any order                                     *)
(***************************************************************************)
MaxFlowParts == 4

InitFlow ==
  /\ arg \in DocsUpTo({<<"i", "f", " ", "(", "c", ")">>, <<"e", "l", "s", "e">>, <<"{">>, <<"}">>, <<"x", ";">>,
                       <<"c", "a", "s", "e", " ", "1", ":">>, <<"f", "(", "\"", ";", "\"", ")", ";">>, <<" ">>, <<NL>>},
                      MaxFlowParts)
  /\ res = <<>>
  /\ fn = "none"
  /\ pass = [r \in Requests |-> NoRequest]
  /\ disableJavaPluginForThisRun = FALSE

SpecFlow == InitFlow /\ [][StartFallback \/ FallbackLine \/ FallbackReturn]_vars

\* C21: the characters of the result that are not white space are those of
\* the code, in the same order
C21_OnlyWhitespaceChanges ==
  fn = "formatJavaPrettyFallback" => NonWs(res) = NonWs(arg)

C21_Witness ==
  /\ fn = "formatJavaPrettyFallback"
  /\ arg = <<"i", "f", " ", "(", "c", ")", " ", "x", ";", "x", ";">>
  /\ res = <<"i", "f", " ", "(", "c", ")", "\n", " ", " ", "x", ";", "\n", " ", " ", "x", ";">>

\* the lines among the first k that opened a switch body which is still
\* open after the line k
OpenSwitches(lines, k) ==
  {s \in 1..k : /\ SwitchHeader(Trim(lines[s]))
                /\ \A m \in s..k : BracesOfRun(lines, s, m) >= 1}

\* C22: switchLevels holds one entry for each switch body that is open, the
\* level at which its opening line was met, and no other entry; so an entry
\* is pushed with the opening line, stays while the body is open, goes with
\* the closing brace, and the stack is empty when every block is closed
C22_StackFollowsSwitches ==
  fn = "for (let raw of lines)" /\ ClosesOnlyOpened(res.lines, res.k) =>
    /\ Len(res.st.switchLevels)
         = Cardinality(OpenSwitches(res.lines, res.k))
    /\ \A s \in OpenSwitches(res.lines, res.k) :
         \E i \in 1..Len(res.st.switchLevels) :
           res.st.switchLevels[i] = res.trace[s].level

====
